---- MODULE Spec2Model ----
(***************************************************************************)
(* The decision policies of the GitWars tank bots:                         *)
(*   src/bots/my_bot.py        (update, with the dot-product danger test)  *)
(*   src/bots/bot_template.py  (update, with the sensor reflex and the     *)
(*                              closing-distance danger test)              *)
(* Each script is one function from a frame snapshot (its context) to an   *)
(* action.  The model applies the helpers and the two update functions to  *)
(* snapshots drawn from bounded sets.                                      *)
(*                                                                         *)
(* Numbers.                                                                *)
(*  - Coordinates, velocities, sensor readings and ammo are integers.      *)
(*  - A distance (math.sqrt of a sum of squares) is represented by its     *)
(*    square: sqrt is strictly increasing and exact enough on the integers *)
(*    used here, so every comparison `d1 < d2` or `d < 80` of the code is  *)
(*    the comparison of the squares; len(80) is the representation of the  *)
(*    length 80.  float('inf') is the value inf, compared by lt.           *)
(*  - Angles are integer degrees.  atan2 is evaluated on the eight compass *)
(*    directions (and on the zero vector, where Python returns 0.0); the   *)
(*    snapshots place every target on a compass direction from the tank.   *)
(*  - cos and sin of a multiple of 45 degrees are in thousandths (rounded: *)
(*    the float 6.1e-17 of cos(90 deg) is 0); a MOVE built from them has   *)
(*    scale 1000, a MOVE built from a raw displacement has scale 1.        *)
(*  - The random source is a parameter rnd = [r, jitter, wander]: the      *)
(*    value random.random() returns (in hundredths), the value             *)
(*    random.uniform(-5, 5) returns and the value random.uniform(0, 360)   *)
(*    returns.  `rand` records the draws the call consumed.                *)
(***************************************************************************)
EXTENDS FiniteSets, Integers, Sequences

VARIABLES
    snapshot,  \* the context the engine passes to update
    rand,      \* the values the random source returned during the call
    action,    \* the action update returned
    args,      \* the arguments of a helper call
    result,    \* the value the helper returned
    pc         \* "call" before the function ran, "done" after it returned

vars == <<snapshot, rand, action, args, result, pc>>

(***************************************************************************)
(* Bounds of the model                                                     *)
(***************************************************************************)
\* enemies + coins + bullets of one snapshot
MaxEntities == 2
\* length of the target sequence handed to find_nearest
MaxTargets == 3

(***************************************************************************)
(* Arithmetic helpers                                                      *)
(***************************************************************************)
\* float('inf') of find_nearest
inf == -1

\* a < b on distances, where b may be inf (a never is)
lt(a, b) == b = inf \/ a < b

\* the representation of the length d
len(d) == d * d

\* math.sqrt((x2 - x1) ** 2 + (y2 - y1) ** 2), as its square
distance(x1, y1, x2, y2) == (x2 - x1) * (x2 - x1) + (y2 - y1) * (y2 - y1)

\* math.degrees(math.atan2(dy, dx)) on the compass directions: in (-180, 180]
atan2_degrees(dy, dx) ==
    CASE dy = 0 /\ dx >= 0 -> 0
      [] dy = 0 /\ dx < 0 -> 180
      [] dx = 0 /\ dy > 0 -> 90
      [] dx = 0 /\ dy < 0 -> 0 - 90
      [] dx > 0 /\ dy = dx -> 45
      [] dx < 0 /\ dy = 0 - dx -> 135
      [] dx > 0 /\ dy = 0 - dx -> 0 - 45
      [] dx < 0 /\ dy = dx -> 0 - 135

\* math.cos(math.radians(a)) in thousandths, a a multiple of 45
cos_deg(a) ==
    CASE a % 360 = 0 -> 1000
      [] a % 360 = 45 -> 707
      [] a % 360 = 90 -> 0
      [] a % 360 = 135 -> 0 - 707
      [] a % 360 = 180 -> 0 - 1000
      [] a % 360 = 225 -> 0 - 707
      [] a % 360 = 270 -> 0
      [] a % 360 = 315 -> 707

\* math.sin(math.radians(a)) in thousandths, a a multiple of 45
sin_deg(a) ==
    CASE a % 360 = 0 -> 0
      [] a % 360 = 45 -> 707
      [] a % 360 = 90 -> 1000
      [] a % 360 = 135 -> 707
      [] a % 360 = 180 -> 0
      [] a % 360 = 225 -> 0 - 707
      [] a % 360 = 270 -> 0 - 1000
      [] a % 360 = 315 -> 0 - 707

\* math.degrees(math.atan2(y2 - y1, x2 - x1))
angle_to(x1, y1, x2, y2) == atan2_degrees(y2 - y1, x2 - x1)

(***************************************************************************)
(* find_nearest (the same code in both scripts)                            *)
(***************************************************************************)
\* Python's None for `nearest`: the empty sequence; a found target t is <<t>>
None == <<>>

\* a plausible slip: min_dist is not updated, so every target replaces the last
find_nearest_step_keeps_inf(best, my_x, my_y, target) ==
    LET dist == distance(my_x, my_y, target.x, target.y)
    IN  IF lt(dist, best.min_dist)
        THEN [nearest |-> <<target>>, min_dist |-> best.min_dist]
        ELSE best

\* one iteration of the loop of find_nearest
find_nearest_step(best, my_x, my_y, target) ==
    LET dist == distance(my_x, my_y, target.x, target.y)
    IN  IF lt(dist, best.min_dist)
        THEN [nearest |-> <<target>>, min_dist |-> dist]
        ELSE best

RECURSIVE find_nearest_loop(_, _, _, _, _)
\* the for loop of find_nearest, from index i on
find_nearest_loop(best, my_x, my_y, targets, i) ==
    IF i > Len(targets)
    THEN best
    ELSE find_nearest_loop(find_nearest_step(best, my_x, my_y, targets[i]),
                           my_x, my_y, targets, i + 1)

\* returns (nearest, min_dist)
find_nearest(my_x, my_y, targets) ==
    find_nearest_loop([nearest |-> None, min_dist |-> inf], my_x, my_y, targets, 1)

(***************************************************************************)
(* The danger tests                                                        *)
(***************************************************************************)
\* my_bot.is_bullet_dangerous
is_bullet_dangerous(my_x, my_y, bullet, threshold) ==
    LET dist == distance(my_x, my_y, bullet.x, bullet.y)
        to_us_x == my_x - bullet.x
        to_us_y == my_y - bullet.y
        dot == to_us_x * bullet.vx + to_us_y * bullet.vy
    IN  IF dist > len(threshold)
        THEN FALSE
        ELSE dot > 0

\* bot_template.will_bullet_hit_me
will_bullet_hit_me(my_x, my_y, bullet, danger_radius) ==
    LET future_x == bullet.x + bullet.vx * 10
        future_y == bullet.y + bullet.vy * 10
        dist_now == distance(my_x, my_y, bullet.x, bullet.y)
        dist_future == distance(my_x, my_y, future_x, future_y)
    IN  dist_future < dist_now /\ dist_now < len(danger_radius * 2)

(***************************************************************************)
(* Actions returned by update                                              *)
(***************************************************************************)
\* ("MOVE", (dx, dy)); rule names the return statement that produced it
Move(dx, dy, scale, rule) ==
    [kind |-> "MOVE", dx |-> dx, dy |-> dy, scale |-> scale, angle |-> 0, rule |-> rule]

\* ("MOVE", (math.cos(math.radians(a)), math.sin(math.radians(a))))
MoveAlong(a, rule) == Move(cos_deg(a), sin_deg(a), 1000, rule)

\* ("SHOOT", angle)
Shoot(angle, rule) ==
    [kind |-> "SHOOT", dx |-> 0, dy |-> 0, scale |-> 0, angle |-> angle, rule |-> rule]

\* the call raised instead of returning (the engine freezes the tank)
Fault(rule) ==
    [kind |-> "FAULT", dx |-> 0, dy |-> 0, scale |-> 0, angle |-> 0, rule |-> rule]

\* a plausible slip: the sidestep turns the heading by 45 degrees, not 90
dodge_45(bullet) ==
    MoveAlong(atan2_degrees(bullet.vy, bullet.vx) + 45, "dodge")

\* the sidestep of both scripts: perpendicular (+90) to the bullet's heading
dodge(bullet) ==
    LET perp_angle == atan2_degrees(bullet.vy, bullet.vx) + 90
    IN  MoveAlong(perp_angle, "dodge")

\* 4. DEFAULT of both scripts: a random heading
wander(rnd) == MoveAlong(rnd.wander, "wander")

(***************************************************************************)
(* my_bot.update                                                           *)
(* Each tier returns <<action>> when one of its return statements runs and *)
(* <<>> when control falls through to the code after it.                   *)
(***************************************************************************)
RECURSIVE my_bot_defense(_, _)
\* PRIORITY 1: the loop over the bullets, from index i on
my_bot_defense(context, i) ==
    IF i > Len(context.bullets)
    THEN <<>>
    ELSE IF is_bullet_dangerous(context.me.x, context.me.y, context.bullets[i], 120)
         THEN <<dodge(context.bullets[i])>>
         ELSE my_bot_defense(context, i + 1)

RECURSIVE my_bot_harass(_, _, _, _)
\* the loop over the enemies near the nearest coin, from index i on
my_bot_harass(context, nearest, dist, i) ==
    IF i > Len(context.enemies)
    THEN <<>>
    ELSE LET me == context.me
             enemy == context.enemies[i]
             enemy_dist == distance(enemy.x, enemy.y, nearest.x, nearest.y)
         IN  IF enemy_dist < dist /\ distance(me.x, me.y, enemy.x, enemy.y) < len(200)
             THEN IF me.ammo > 10
                  THEN <<Shoot(angle_to(me.x, me.y, enemy.x, enemy.y), "harass")>>
                  ELSE my_bot_harass(context, nearest, dist, i + 1)
             ELSE my_bot_harass(context, nearest, dist, i + 1)

\* MODE 1: THE SCRAMBLE
my_bot_scramble(context) ==
    LET me == context.me
        coins == context.coins
    IN  IF Len(coins) > 0
        THEN LET found == find_nearest(me.x, me.y, coins)
             IN  IF found.nearest # None
                 THEN LET nearest == found.nearest[1]
                          shot == my_bot_harass(context, nearest, found.min_dist, 1)
                      IN  IF shot # <<>>
                          THEN shot
                          ELSE <<Move(nearest.x - me.x, nearest.y - me.y, 1, "coin")>>
                 ELSE <<>>
        ELSE <<>>

\* a plausible slip: the displacement is taken from the center to the tank
my_bot_center_reversed(my_x, my_y) ==
    Move(my_x - 640, my_y - 360, 1, "center")

\* no enemies are left: move to the center of the 1280x720 screen
my_bot_center(my_x, my_y) ==
    LET center_x == 640
        center_y == 360
    IN  Move(center_x - my_x, center_y - my_y, 1, "center")

\* a plausible slip: the 70% chance is given to the retreat
my_bot_close_swapped(ammo, target_angle, rnd) ==
    IF ammo > 0
    THEN IF rnd.r < 70
         THEN <<MoveAlong(target_angle + 180, "retreat")>>
         ELSE <<Shoot(target_angle, "close_shoot")>>
    ELSE <<>>

\* SITUATION: Defensive (dist < 80)
my_bot_close(ammo, target_angle, rnd) ==
    IF ammo > 0
    THEN LET retreat_angle == target_angle + 180
         IN  IF rnd.r < 70
             THEN <<Shoot(target_angle, "close_shoot")>>
             ELSE <<MoveAlong(retreat_angle, "retreat")>>
    ELSE <<>>

\* a plausible slip: the spray is left out
my_bot_attack_no_spray(ammo, target_angle, rnd) ==
    IF ammo > 0
    THEN <<Shoot(target_angle, "attack")>>
    ELSE <<>>

\* a plausible slip: the ammo guard is left out
my_bot_attack_no_guard(ammo, target_angle, rnd) ==
    <<Shoot(target_angle + rnd.jitter, "attack")>>

\* SITUATION: Offensive (80 <= dist < 250)
my_bot_attack(ammo, target_angle, rnd) ==
    IF ammo > 0
    THEN LET aim_angle == target_angle + rnd.jitter
         IN  <<Shoot(aim_angle, "attack")>>
    ELSE <<>>

\* MODE 2 & 3: COMBAT (the else branch of game_mode == 1)
my_bot_combat(context, rnd) ==
    LET me == context.me
        enemies == context.enemies
    IN  IF Len(enemies) = 0
        THEN <<my_bot_center(me.x, me.y)>>
        ELSE LET found == find_nearest(me.x, me.y, enemies)
                 dist == found.min_dist
             IN  IF found.nearest # None
                 THEN LET enemy_x == found.nearest[1].x
                          enemy_y == found.nearest[1].y
                          target_angle == angle_to(me.x, me.y, enemy_x, enemy_y)
                      IN  IF dist < len(80)
                          THEN my_bot_close(me.ammo, target_angle, rnd)
                          ELSE IF dist < len(250)
                               THEN my_bot_attack(me.ammo, target_angle, rnd)
                               ELSE <<Move(enemy_x - me.x, enemy_y - me.y, 1, "pursue")>>
                 ELSE <<>>

\* my_bot.update(context), the random source stubbed by rnd
my_bot_update(context, rnd) ==
    LET dodged == my_bot_defense(context, 1)
        objective == IF context.game_mode = 1
                     THEN my_bot_scramble(context)
                     ELSE my_bot_combat(context, rnd)
    IN  IF dodged # <<>>
        THEN dodged[1]
        ELSE IF objective # <<>>
             THEN objective[1]
             ELSE wander(rnd)

(***************************************************************************)
(* bot_template.update                                                     *)
(***************************************************************************)
\* a plausible slip: the thresholds are inclusive
obstacle_reflex_inclusive(sensors, my_angle) ==
    IF sensors.front <= 10
    THEN <<MoveAlong(my_angle + 180, "reverse")>>
    ELSE IF sensors.front <= 50
         THEN IF sensors.left > sensors.right
              THEN <<MoveAlong(my_angle - 90, "turn")>>
              ELSE <<MoveAlong(my_angle + 90, "turn")>>
         ELSE IF sensors.left < 30
              THEN <<MoveAlong(my_angle + 45, "nudge_right")>>
              ELSE IF sensors.right < 30
                   THEN <<MoveAlong(my_angle - 45, "nudge_left")>>
                   ELSE <<>>

\* PRIORITY 0: OBSTACLE AVOIDANCE REFLEX, on the sensor reading it was given
obstacle_reflex(sensors, my_angle) ==
    IF sensors.front < 10
    THEN <<MoveAlong(my_angle + 180, "reverse")>>
    ELSE IF sensors.front < 50
         THEN IF sensors.left > sensors.right
              THEN <<MoveAlong(my_angle - 90, "turn")>>
              ELSE <<MoveAlong(my_angle + 90, "turn")>>
         ELSE IF sensors.left < 30
              THEN <<MoveAlong(my_angle + 45, "nudge_right")>>
              ELSE IF sensors.right < 30
                   THEN <<MoveAlong(my_angle - 45, "nudge_left")>>
                   ELSE <<>>

RECURSIVE bot_template_defense(_, _)
\* Priority 1: the loop over the bullets, from index i on
bot_template_defense(context, i) ==
    IF i > Len(context.bullets)
    THEN <<>>
    ELSE IF will_bullet_hit_me(context.me.x, context.me.y, context.bullets[i], 50)
         THEN <<dodge(context.bullets[i])>>
         ELSE bot_template_defense(context, i + 1)

\* game_mode == 1: THE SCRAMBLE
bot_template_scramble(context) ==
    LET me == context.me
        coins == context.coins
    IN  IF Len(coins) > 0
        THEN LET found == find_nearest(me.x, me.y, coins)
             IN  IF found.nearest # None
                 THEN <<Move(found.nearest[1].x - me.x, found.nearest[1].y - me.y, 1, "coin")>>
                 ELSE <<>>
        ELSE <<>>

\* game_mode in [2, 3]: LABYRINTH or DUEL
bot_template_combat(context) ==
    LET me == context.me
        enemies == context.enemies
    IN  IF Len(enemies) > 0 /\ me.ammo > 0
        THEN LET found == find_nearest(me.x, me.y, enemies)
                 dist == found.min_dist
             IN  IF found.nearest # None
                 THEN LET nearest_enemy == found.nearest[1]
                      IN  IF dist < len(200)
                          THEN <<Shoot(angle_to(me.x, me.y, nearest_enemy.x, nearest_enemy.y),
                                       "shoot")>>
                          ELSE <<Move(nearest_enemy.x - me.x, nearest_enemy.y - me.y, 1,
                                      "approach")>>
                 ELSE <<>>
        ELSE <<>>

\* bot_template.update(context), the random source stubbed by rnd.
\* context.sensors is <<>> when the snapshot carries no sensor data:
\* context["sensors"] (or the subscript of its None) then raises.
bot_template_update(context, rnd) ==
    IF context.sensors = <<>>
    THEN Fault("sensors_missing")
    ELSE LET reflex == obstacle_reflex(context.sensors[1], context.me.angle)
             dodged == bot_template_defense(context, 1)
             objective == IF context.game_mode = 1
                          THEN bot_template_scramble(context)
                          ELSE IF context.game_mode \in {2, 3}
                               THEN bot_template_combat(context)
                               ELSE <<>>
         IN  IF reflex # <<>>
             THEN reflex[1]
             ELSE IF dodged # <<>>
                  THEN dodged[1]
                  ELSE IF objective # <<>>
                       THEN objective[1]
                       ELSE wander(rnd)

\* the draws of the random source the call consumed: random.random() in the
\* defensive situation, random.uniform(-5, 5) in the offensive one,
\* random.uniform(0, 360) in the default; no other path draws
drawn(a, rnd) ==
    CASE a.rule \in {"close_shoot", "retreat"} -> <<rnd.r>>
      [] a.rule = "attack" -> <<rnd.jitter>>
      [] a.rule = "wander" -> <<rnd.wander>>
      [] OTHER -> <<>>

(***************************************************************************)
(* The snapshots the engine may pass                                       *)
(* Only the fields the scripts read are kept: health, the coin counter,    *)
(* the walls and time_left are read by neither update.                     *)
(***************************************************************************)
\* game_mode: 1 = Scramble, 2 = Labyrinth, 3 = Duel
GameModes == {1, 2, 3}

\* the tank: position and facing angle
Selves == {[x |-> 0, y |-> 0, angle |-> 0], [x |-> 640, y |-> 360, angle |-> 135]}

\* remaining bullets of the tank
Ammo == {0, 3, 5, 10, 11}

\* enemy positions relative to the tank: too close, at exactly 80, in range,
\* at exactly 250
EnemyOffsets == {<<30, 0>>, <<80, 0>>, <<100, 0>>, <<0, 250>>}

\* coin positions relative to the tank
CoinOffsets == {<<50, 0>>, <<0, 0 - 200>>}

\* bullets relative to the tank: closing in from the right, closing in on a
\* diagonal, closing in from exactly 120 away, flying away
BulletOffsets ==
    { [x |-> 60, y |-> 0, vx |-> 0 - 1, vy |-> 0],
      [x |-> 0 - 60, y |-> 0 - 60, vx |-> 1, vy |-> 1],
      [x |-> 120, y |-> 0, vx |-> 0 - 1, vy |-> 0],
      [x |-> 60, y |-> 0, vx |-> 1, vy |-> 0] }

\* a sensor reading
Reading(front, left, right) == [front |-> front, left |-> left, right |-> right]

\* context["sensors"]: <<>> when the snapshot carries none
SensorReadings ==
    {<<>>} \cup { <<Reading(f, side[1], side[2])>> :
                    f \in {9, 10, 49, 50},
                    side \in {<<300, 100>>, <<29, 300>>, <<300, 29>>, <<30, 30>>} }

\* what the stubbed random source returns.  No path of either update draws
\* more than once (see drawn), so the three values need not vary independently.
RandomSource ==
    { [r |-> 0, jitter |-> 0 - 5, wander |-> 0],
      [r |-> 50, jitter |-> 0, wander |-> 135],
      [r |-> 69, jitter |-> 5, wander |-> 270],
      [r |-> 70, jitter |-> 0 - 3, wander |-> 45],
      [r |-> 90, jitter |-> 2, wander |-> 180] }

\* the context built from positions relative to the tank
Snapshot(self, ammo, eo, co, bo, sensors, mode) ==
    [ me |-> [x |-> self.x, y |-> self.y, angle |-> self.angle, ammo |-> ammo],
      enemies |-> [i \in DOMAIN eo |-> [x |-> self.x + eo[i][1], y |-> self.y + eo[i][2], id |-> i]],
      coins |-> [i \in DOMAIN co |-> [x |-> self.x + co[i][1], y |-> self.y + co[i][2]]],
      bullets |-> [i \in DOMAIN bo |-> [x |-> self.x + bo[i].x, y |-> self.y + bo[i].y,
                                         vx |-> bo[i].vx, vy |-> bo[i].vy]],
      sensors |-> sensors,
      game_mode |-> mode ]

\* no action yet
NoAction == [kind |-> "NONE", dx |-> 0, dy |-> 0, scale |-> 0, angle |-> 0, rule |-> "none"]

(***************************************************************************)
(* The engine calls update on a snapshot                                   *)
(***************************************************************************)
Init ==
    /\ \E ne \in 0..MaxEntities :
         \E nc \in 0..(MaxEntities - ne) :
           \E nb \in 0..(MaxEntities - ne - nc) :
             \E self \in Selves, ammo \in Ammo, mode \in GameModes, sensors \in SensorReadings,
                eo \in [1..ne -> EnemyOffsets], co \in [1..nc -> CoinOffsets],
                bo \in [1..nb -> BulletOffsets] :
                snapshot = Snapshot(self, ammo, eo, co, bo, sensors, mode)
    /\ rand = <<>>
    /\ action = NoAction
    /\ args = <<>>
    /\ result = <<>>
    /\ pc = "call"

\* the engine runs my_bot.update on the snapshot
MyBotUpdate ==
    /\ pc = "call"
    /\ \E rnd \in RandomSource :
         /\ action' = my_bot_update(snapshot, rnd)
         /\ rand' = drawn(action', rnd)
    /\ pc' = "my_bot.update"
    /\ UNCHANGED <<snapshot, args, result>>

\* the engine runs bot_template.update on the snapshot
BotTemplateUpdate ==
    /\ pc = "call"
    /\ \E rnd \in RandomSource :
         /\ action' = bot_template_update(snapshot, rnd)
         /\ rand' = drawn(action', rnd)
    /\ pc' = "bot_template.update"
    /\ UNCHANGED <<snapshot, args, result>>

Next == MyBotUpdate \/ BotTemplateUpdate

Spec == Init /\ [][Next]_vars

(***************************************************************************)
(* find_nearest applied to a position and a target sequence                *)
(***************************************************************************)
\* positions find_nearest is called from
NearestPositions == {<<0, 0>>, <<10, 0>>}

\* targets; from (0, 0) two pairs of them are at equal distances
NearestTargets ==
    { [x |-> 30, y |-> 0], [x |-> 0, y |-> 30], [x |-> 100, y |-> 0],
      [x |-> 0, y |-> 0 - 50], [x |-> 60, y |-> 80] }

InitNearest ==
    /\ \E p \in NearestPositions, n \in 0..MaxTargets :
         \E targets \in [1..n -> NearestTargets] :
           args = [my_x |-> p[1], my_y |-> p[2], targets |-> targets]
    /\ result = [nearest |-> None, min_dist |-> inf]
    /\ snapshot = <<>>
    /\ rand = <<>>
    /\ action = NoAction
    /\ pc = "call"

CallFindNearest ==
    /\ pc = "call"
    /\ result' = find_nearest(args.my_x, args.my_y, args.targets)
    /\ pc' = "find_nearest"
    /\ UNCHANGED <<snapshot, rand, action, args>>

NextNearest == CallFindNearest

SpecNearest == InitNearest /\ [][NextNearest]_vars

(***************************************************************************)
(* is_bullet_dangerous applied to a position, a bullet and a threshold     *)
(***************************************************************************)
\* bullet positions around the tank at (0, 0): inside, on and outside the
\* circles of radius 100 and 120
DangerPositions ==
    { <<60, 0>>, <<99, 0>>, <<100, 0>>, <<101, 0>>, <<119, 0>>, <<120, 0>>, <<121, 0>>,
      <<0, 0 - 120>>, <<72, 96>>, <<0 - 60, 0 - 80>> }

\* bullet velocities
DangerVelocities == {0 - 1, 0, 1}

InitDanger ==
    /\ \E p \in DangerPositions, vx \in DangerVelocities, vy \in DangerVelocities,
          threshold \in {100, 120} :
         args = [my_x |-> 0, my_y |-> 0,
                 bullet |-> [x |-> p[1], y |-> p[2], vx |-> vx, vy |-> vy],
                 threshold |-> threshold]
    /\ result = FALSE
    /\ snapshot = <<>>
    /\ rand = <<>>
    /\ action = NoAction
    /\ pc = "call"

CallIsBulletDangerous ==
    /\ pc = "call"
    /\ result' = is_bullet_dangerous(args.my_x, args.my_y, args.bullet, args.threshold)
    /\ pc' = "is_bullet_dangerous"
    /\ UNCHANGED <<snapshot, rand, action, args>>

NextDanger == CallIsBulletDangerous

SpecDanger == InitDanger /\ [][NextDanger]_vars

(***************************************************************************)
(* Vocabulary of the properties                                            *)
(***************************************************************************)
\* one of the update functions has returned (or raised)
Returned == pc \in {"my_bot.update", "bot_template.update"}

\* the sensor tier of bot_template.update was passed: a reading is present
\* and none of its four rules applies to it
ReflexPassed ==
    /\ snapshot.sensors # <<>>
    /\ snapshot.sensors[1].front >= 50
    /\ snapshot.sensors[1].left >= 30
    /\ snapshot.sensors[1].right >= 30

\* the bullets the script that ran classifies as dangerous
DangerousIndices ==
    { i \in 1..Len(snapshot.bullets) :
        IF pc = "my_bot.update"
        THEN is_bullet_dangerous(snapshot.me.x, snapshot.me.y, snapshot.bullets[i], 120)
        ELSE will_bullet_hit_me(snapshot.me.x, snapshot.me.y, snapshot.bullets[i], 50) }

\* the first dangerous bullet in the snapshot's sequence order
FirstDangerous ==
    snapshot.bullets[CHOOSE i \in DangerousIndices : \A j \in DangerousIndices : i <= j]

\* velocity heading of a bullet
Heading(b) == atan2_degrees(b.vy, b.vx)

\* the action is the unit MOVE along angle a
IsMoveAlong(a) ==
    /\ action.kind = "MOVE"
    /\ action.scale = 1000
    /\ action.dx = cos_deg(a)
    /\ action.dy = sin_deg(a)

\* distance from the tank to enemy i
EnemyDistance(i) ==
    distance(snapshot.me.x, snapshot.me.y, snapshot.enemies[i].x, snapshot.enemies[i].y)

\* the nearest enemy: minimum distance, the first in sequence order among equals
NearestEnemy ==
    snapshot.enemies[CHOOSE i \in 1..Len(snapshot.enemies) :
                       \A j \in 1..Len(snapshot.enemies) :
                         \/ EnemyDistance(i) < EnemyDistance(j)
                         \/ EnemyDistance(i) = EnemyDistance(j) /\ i <= j]

\* bearing from the tank to the nearest enemy
Bearing ==
    atan2_degrees(NearestEnemy.y - snapshot.me.y, NearestEnemy.x - snapshot.me.x)

(***************************************************************************)
(* C1: whenever a bullet is classified dangerous by the script's own test  *)
(* (and, in bot_template.update, the sensor tier was passed), update       *)
(* returns the unit MOVE along the heading of the FIRST dangerous bullet   *)
(* plus 90 degrees, which is orthogonal to that bullet's velocity,         *)
(* whatever the mode, coins, enemies, ammo and later bullets are.          *)
(***************************************************************************)
C1_DodgeFirstDangerous ==
    ( /\ Returned
      /\ DangerousIndices # {}
      /\ (pc = "bot_template.update" => ReflexPassed) )
    => /\ IsMoveAlong(Heading(FirstDangerous) + 90)
       /\ action.dx * FirstDangerous.vx + action.dy * FirstDangerous.vy = 0

\* C1 witness: two dangerous bullets with different headings; the first one
\* decided the dodge
C1_Witness ==
    /\ Returned
    /\ Cardinality(DangerousIndices) = 2
    /\ Heading(snapshot.bullets[1]) # Heading(snapshot.bullets[2])
    /\ (pc = "bot_template.update" => ReflexPassed)
    /\ IsMoveAlong(Heading(snapshot.bullets[1]) + 90)
    /\ ~IsMoveAlong(Heading(snapshot.bullets[2]) + 90)

(***************************************************************************)
(* C2: in bot_template.update, given a sensor reading, the emergency       *)
(* reverse (unit MOVE along facing + 180) is returned iff front < 10, and  *)
(* the 90-degree turn iff 10 <= front < 50: along facing - 90 when         *)
(* left > right, along facing + 90 otherwise.  So 9 reverses, 10 and 49    *)
(* turn, 50 does neither.                                                  *)
(***************************************************************************)
C2_SensorThresholds ==
    (pc = "bot_template.update" /\ snapshot.sensors # <<>>)
    => LET s == snapshot.sensors[1]
           facing == snapshot.me.angle
       IN  /\ action.rule = "reverse" <=> s.front < 10
           /\ action.rule = "reverse" => IsMoveAlong(facing + 180)
           /\ action.rule = "turn" <=> (10 <= s.front /\ s.front < 50)
           /\ action.rule = "turn"
                => IF s.left > s.right
                   THEN IsMoveAlong(facing - 90)
                   ELSE IsMoveAlong(facing + 90)

\* C2 witness: front exactly 10 turns (toward the left, which is wider)
C2_Witness ==
    /\ pc = "bot_template.update"
    /\ snapshot.sensors # <<>>
    /\ snapshot.sensors[1].front = 10
    /\ snapshot.sensors[1].left > snapshot.sensors[1].right
    /\ action.rule = "turn"
    /\ IsMoveAlong(snapshot.me.angle - 90)

(***************************************************************************)
(* C3: when the snapshot carries no sensor data, update does not fail: it  *)
(* skips the obstacle reflex and returns the action of a later tier.       *)
(***************************************************************************)
C3_NoSensorsNoFault ==
    (Returned /\ snapshot.sensors = <<>>)
    => /\ action.kind \in {"MOVE", "SHOOT"}
       /\ action.rule \notin {"reverse", "turn", "nudge_right", "nudge_left"}

(***************************************************************************)
(* C4: in Scramble mode with no enemies, no coins and no bullets, update   *)
(* returns without fault and the action is a MOVE.                         *)
(***************************************************************************)
C4_ScrambleEmptyMoves ==
    ( /\ Returned
      /\ snapshot.game_mode = 1
      /\ Len(snapshot.enemies) = 0
      /\ Len(snapshot.coins) = 0
      /\ Len(snapshot.bullets) = 0 )
    => action.kind = "MOVE"

(***************************************************************************)
(* C5: Scenario 1: self at (0,0) facing 0, Duel, one enemy at (100,0),     *)
(* ammo 5, no bullets, no sensors.                                         *)
(***************************************************************************)
\* the snapshot of Scenario 1, the sensors aside
Scenario1 ==
    /\ snapshot.me = [x |-> 0, y |-> 0, angle |-> 0, ammo |-> 5]
    /\ snapshot.game_mode = 3
    /\ Len(snapshot.enemies) = 1
    /\ snapshot.enemies[1].x = 100
    /\ snapshot.enemies[1].y = 0
    /\ Len(snapshot.bullets) = 0

\* C5 as stated: update returns SHOOT at exactly 0 degrees, whatever the
\* random source returns
C5_Scenario1ShootsAtZero ==
    (Returned /\ Scenario1 /\ snapshot.sensors = <<>>)
    => (action.kind = "SHOOT" /\ action.angle = 0)

\* C5 as amended: my_bot.update returns SHOOT at 0 plus the spray it drew
\* from uniform(-5, 5); bot_template.update raises on the sensor-less
\* snapshot and, given a reading that triggers no reflex, returns SHOOT at
\* exactly 0 without drawing.
C5_Scenario1ShootsWithSpray ==
    (Returned /\ Scenario1)
    => /\ pc = "my_bot.update"
            => /\ action.kind = "SHOOT"
               /\ Len(rand) = 1
               /\ 0 - 5 <= rand[1] /\ rand[1] <= 5
               /\ action.angle = 0 + rand[1]
       /\ (pc = "bot_template.update" /\ snapshot.sensors = <<>>)
            => action.kind = "FAULT"
       /\ (pc = "bot_template.update" /\ ReflexPassed)
            => (action.kind = "SHOOT" /\ action.angle = 0 /\ rand = <<>>)

\* C5 witness: my_bot.update in Scenario 1 shot off the bearing
C5_Witness ==
    /\ pc = "my_bot.update"
    /\ Scenario1
    /\ snapshot.sensors = <<>>
    /\ action.kind = "SHOOT"
    /\ action.angle = 5

(***************************************************************************)
(* C7: my_bot.update in Labyrinth or Duel, no dangerous bullet, nearest    *)
(* enemy closer than 80, ammo > 0: with the injected random value r it     *)
(* returns SHOOT at the exact bearing when r < 0.7 and the unit MOVE along *)
(* bearing + 180 otherwise.  For self (0,0), enemy (30,0), ammo 3:         *)
(* r = 0.5 gives SHOOT(0), r = 0.9 gives MOVE (-1, 0).                     *)
(***************************************************************************)
C7_TooCloseShootOrRetreat ==
    ( /\ pc = "my_bot.update"
      /\ snapshot.game_mode \in {2, 3}
      /\ DangerousIndices = {}
      /\ Len(snapshot.enemies) > 0
      /\ distance(snapshot.me.x, snapshot.me.y, NearestEnemy.x, NearestEnemy.y) < len(80)
      /\ snapshot.me.ammo > 0 )
    => /\ Len(rand) = 1
       /\ rand[1] < 70 => (action.kind = "SHOOT" /\ action.angle = Bearing)
       /\ rand[1] >= 70 => IsMoveAlong(Bearing + 180)
       /\ ( /\ snapshot.me.x = 0 /\ snapshot.me.y = 0 /\ snapshot.me.ammo = 3
            /\ NearestEnemy.x = 30 /\ NearestEnemy.y = 0 )
          => /\ rand[1] = 50 => (action.kind = "SHOOT" /\ action.angle = 0)
             /\ rand[1] = 90 => ( /\ action.kind = "MOVE"
                                  /\ action.dx = 0 - 1000
                                  /\ action.dy = 0
                                  /\ action.scale = 1000 )

\* C7 witness: Scenario 2 with r = 0.9: the tank retreats along (-1, 0)
C7_Witness ==
    /\ pc = "my_bot.update"
    /\ snapshot.game_mode = 3
    /\ snapshot.me = [x |-> 0, y |-> 0, angle |-> 0, ammo |-> 3]
    /\ Len(snapshot.enemies) = 1
    /\ snapshot.enemies[1].x = 30
    /\ snapshot.enemies[1].y = 0
    /\ rand = <<90>>
    /\ action.kind = "MOVE"
    /\ action.dx = 0 - 1000
    /\ action.dy = 0

(***************************************************************************)
(* C8: Labyrinth or Duel, no enemies, no higher-priority rule fires.       *)
(***************************************************************************)
\* the preconditions of C8
C8_Case ==
    /\ Returned
    /\ snapshot.game_mode \in {2, 3}
    /\ Len(snapshot.enemies) = 0
    /\ DangerousIndices = {}
    /\ (pc = "bot_template.update" => ReflexPassed)

\* C8 as stated: update returns a MOVE whose direction points from self
\* toward the arena center (640, 360)
C8_NoEnemiesMoveToCenter ==
    C8_Case
    => /\ action.kind = "MOVE"
       /\ action.dx * (360 - snapshot.me.y) = action.dy * (640 - snapshot.me.x)
       /\ action.dx * (640 - snapshot.me.x) + action.dy * (360 - snapshot.me.y) >= 0

\* C8 as amended: my_bot.update returns the MOVE along the displacement from
\* self to (640, 360), whatever the ammo, without drawing from the random
\* source; bot_template.update has no such rule and returns the default MOVE
\* along the random heading it drew.
C8_CenterInMyBotWanderInTemplate ==
    C8_Case
    => /\ pc = "my_bot.update"
            => /\ action.kind = "MOVE"
               /\ action.scale = 1
               /\ action.dx = 640 - snapshot.me.x
               /\ action.dy = 360 - snapshot.me.y
               /\ rand = <<>>
       /\ pc = "bot_template.update"
            => /\ action.rule = "wander"
               /\ Len(rand) = 1
               /\ IsMoveAlong(rand[1])

\* C8 witness: my_bot.update, out of ammo at (0, 0), heads for the center
C8_Witness ==
    /\ C8_Case
    /\ pc = "my_bot.update"
    /\ snapshot.me.ammo = 0
    /\ snapshot.me.x = 0
    /\ action.kind = "MOVE"
    /\ action.dx = 640
    /\ action.dy = 360

(***************************************************************************)
(* C10: neither update returns SHOOT with ammo 0: a SHOOT is returned only *)
(* if ammo > 0 (in my_bot.update in Scramble mode only if ammo > 10), and  *)
(* with ammo 0 every returned action is a MOVE.                            *)
(***************************************************************************)
C10_NoShootWithoutAmmo ==
    Returned
    => /\ action.kind = "SHOOT" => snapshot.me.ammo > 0
       /\ (action.kind = "SHOOT" /\ pc = "my_bot.update" /\ snapshot.game_mode = 1)
            => snapshot.me.ammo > 10
       /\ (snapshot.me.ammo = 0 /\ action.kind # "FAULT") => action.kind = "MOVE"

\* C10 witness: out of ammo with an enemy in attack range (100 away), no
\* bullet to dodge: my_bot.update falls through to the default MOVE
C10_Witness ==
    /\ pc = "my_bot.update"
    /\ snapshot.me.ammo = 0
    /\ snapshot.game_mode = 3
    /\ Len(snapshot.enemies) = 1
    /\ EnemyDistance(1) = len(100)
    /\ DangerousIndices = {}
    /\ action.kind = "MOVE"
    /\ action.rule = "wander"

(***************************************************************************)
(* C6: find_nearest is order-independent for distinct distances: on a      *)
(* non-empty target sequence whose distances to the position are pairwise  *)
(* distinct it returns the target at minimum distance with that distance,  *)
(* and so it does on every permutation of the sequence; on the empty       *)
(* sequence it returns (None, infinity).                                   *)
(***************************************************************************)
\* distance from the position to target i of the call
TargetDistance(i) ==
    distance(args.my_x, args.my_y, args.targets[i].x, args.targets[i].y)

\* the distances of the targets of the call are pairwise distinct
PairwiseDistinct ==
    \A i, j \in 1..Len(args.targets) : i # j => TargetDistance(i) # TargetDistance(j)

\* the permutations of 1..n
Reorderings(n) ==
    { p \in [1..n -> 1..n] : \A i, j \in 1..n : i # j => p[i] # p[j] }

\* seq reordered by the permutation p
Permuted(seq, p) == [i \in 1..Len(seq) |-> seq[p[i]]]

C6_NearestOrderIndependent ==
    pc = "find_nearest"
    => /\ Len(args.targets) = 0 => result = [nearest |-> None, min_dist |-> inf]
       /\ (Len(args.targets) > 0 /\ PairwiseDistinct)
            => /\ \E i \in 1..Len(args.targets) :
                    /\ result.nearest = <<args.targets[i]>>
                    /\ result.min_dist = TargetDistance(i)
                    /\ \A j \in 1..Len(args.targets) : TargetDistance(i) <= TargetDistance(j)
               /\ \A p \in Reorderings(Len(args.targets)) :
                    find_nearest(args.my_x, args.my_y, Permuted(args.targets, p)) = result

\* C6 witness: three targets at distinct distances, the nearest of them last
C6_Witness ==
    /\ pc = "find_nearest"
    /\ Len(args.targets) = 3
    /\ PairwiseDistinct
    /\ result.nearest = <<args.targets[3]>>
    /\ result.min_dist < TargetDistance(1)
    /\ TargetDistance(1) < TargetDistance(2)

(***************************************************************************)
(* C9: is_bullet_dangerous returns True iff the vector from the bullet to  *)
(* self has strictly positive dot product with the bullet's velocity and   *)
(* the distance is strictly less than threshold; a bullet at distance      *)
(* exactly threshold is not dangerous.                                     *)
(***************************************************************************)
C9_DangerousIffStrictlyInside ==
    pc = "is_bullet_dangerous"
    => LET b == args.bullet
           dot == (args.my_x - b.x) * b.vx + (args.my_y - b.y) * b.vy
           dist == distance(args.my_x, args.my_y, b.x, b.y)
       IN  result <=> (dot > 0 /\ dist < len(args.threshold))

====
